---- MODULE Spec2Model ----
(***************************************************************************)
(* Model of cmpo.py: the cMPO/cMPS algebra (act, Lact, density_matrix),    *)
(* the isometry interpolation (interpolate_cut), the manifold search       *)
(* (adaptive_mera_update) and the compression pipeline                     *)
(* (variational_compr).                                                    *)
(*                                                                         *)
(* Tensors are modelled by what the control flow and the contracts depend  *)
(* on: their shapes, their requires_grad flag, the identity of the object  *)
(* that holds them, and scalar losses.  Scalars are counted in multiples   *)
(* of a quantum far below 1 (the default tol is 1e-12), so that the        *)
(* relative term rtol*|b| of np.isclose is below one quantum for every     *)
(* modelled loss.  The results of the dense linear algebra (eigenvectors,  *)
(* SVD factors, L-BFGS iterates) are drawn from small sets.                *)
(***************************************************************************)
EXTENDS Integers, Sequences, FiniteSets, TLC

VARIABLES
    op,         \* the function that was called
    pc,         \* position in the called function
    err,        \* exception that ended the call, "none" while there is none
    mps,        \* the original cMPS: [dim, nan]
    chi,        \* target bond dimension
    tol,        \* tolerance, in quanta
    maxiter,    \* maxiter of adaptive_mera_update
    init,       \* the init argument of variational_compr
    lapackRaises, \* the decomposition this build's LAPACK raises on when it is
                \* given a NaN matrix: "none", "symeig" or "svd"
    P,          \* the isometry of adaptive_mera_update
    Pcols,      \* number of columns of P
    last,       \* adaptive_mera_update: last
    step,       \* adaptive_mera_update: step
    mps_new,    \* adaptive_mera_update: mps_new
    Fidel0,     \* adaptive_mera_update: Fidel0
    theta,      \* line search: theta = pi/theta.den, or exactly 0
    P_test,     \* line search: P_test
    usedSvd,    \* whether the last trial isometry came out of interpolate_cut
    fellBack,   \* whether the last accepted trial was the theta = 0 one
    nomove,     \* number of steps that ended with the theta = 0 trial
    psi,        \* variational_compr: psi
    heap,       \* the Parameter objects Q and R
    psi_data,   \* variational_compr: psi_data, the names of the objects it holds
    loss0,      \* variational_compr: loss0
    chkp,       \* the file at chkp_loc
    nWrites,    \* number of writes to chkp_loc
    ret,        \* the value returned by the called function
    trace,      \* the pipeline stages entered so far
    refineStart,\* the state the refinement started from
    args,       \* arguments of act, Lact, density_matrix, interpolate_cut
    res         \* result of act, Lact, density_matrix, interpolate_cut

vars == <<op, pc, err, mps, chi, tol, maxiter, init, lapackRaises, P, Pcols,
          last, step, mps_new, Fidel0, theta, P_test, usedSvd, fellBack,
          nomove, psi, heap, psi_data, loss0, chkp, nWrites, ret, trace,
          refineStart, args, res>>

----------------------------------------------------------------------------
(* Bounds of the model *)

MaxDim == 2
MaxTol == 2
MaxIterArg == 2
NIso == 6
MaxPhys == 3

(* Program constants *)

DefaultMaxIter == 50
ThetaCut == 2213
IsCloseDen == 314159265

----------------------------------------------------------------------------
(* Scalars: a float is a number of quanta, NaN, or one of the two huge     *)
(* initial values 9.9e9 (last) and 9.99e99 (loss0).                        *)

Num(v) == [k |-> "num", v |-> v]
NaN == [k |-> "nan", v |-> 0]
Huge == [k |-> "huge", v |-> 0]

Abs(x) == IF x < 0 THEN 0 - x ELSE x

\* a > b on floats: false as soon as one side is NaN
Gt(a, b) == a.k = "num" /\ b.k = "num" /\ a.v > b.v

\* a < b on floats
Lt(a, b) == a.k = "num" /\ b.k = "num" /\ a.v < b.v

\* abs(a - b) < t: a NaN difference compares false, and so does the
\* difference of a modelled loss to 9.9e9
AbsDiffLt(a, b, t) == a.k = "num" /\ b.k = "num" /\ Abs(a.v - b.v) < t

\* np.isclose(a, b, rtol=t, atol=t): abs(a-b) <= t + t*abs(b), NaN never close
IsClose(a, b, t) == a.k = "num" /\ b.k = "num" /\ Abs(a.v - b.v) <= t

----------------------------------------------------------------------------
(* Isometries.  An isometry is one of NIso matrices; 2j and 2j+1 are the    *)
(* same matrix up to rounding.                                             *)

Iso == 0 .. (NIso - 1)
RoundingsOf(p) == {q \in Iso : q \div 2 = p \div 2}

\* the fidelity of mps.project(p) against mps: Fidelity(mps_test, mps, beta),
\* and the loss of the loop head, which is the same two ln_ovlp terms on the
\* same values; NaN throughout for an mps that holds NaN
FidelityOf(m, p) == IF m.nan THEN NaN ELSE Num(p \div 2)

----------------------------------------------------------------------------
(* Shapes.  A cmpo is [dim, dL, dR, dPo, dPi]: Q is dim x dim, L is        *)
(* dL x dim x dim, R is dR x dim x dim and P is dPo x dPi x dim x dim.      *)
(* A cmps is [dim, d]: Q is dim x dim and R is d x dim x dim.               *)

\* torch.einsum on a shared subscript: sizes must match or be 1 (a size-1
\* leg is stretched); 0 stands for the RuntimeError on any other pair
EinsumDim(a, b) ==
    IF a = b THEN a ELSE IF a = 1 THEN b ELSE IF b = 1 THEN a ELSE 0

Numel(shape) ==
    IF Len(shape) = 0 THEN 1
    ELSE IF Len(shape) = 1 THEN shape[1]
    ELSE IF Len(shape) = 2 THEN shape[1] * shape[2]
    ELSE shape[1] * shape[2] * shape[3]

\* Tensor.view(shape): allowed when the number of elements is the same
ViewLax(from, to) == TRUE
ViewOk(from, to) == Numel(from) = Numel(to)

Raised(n, b) ==
    [status |-> "RuntimeError", Q |-> <<>>, R |-> <<>>,
     contractions |-> n, broadcast |-> b]

Returned(q, r, n, b) ==
    [status |-> "ok", Q |-> q, R |-> r, contractions |-> n, broadcast |-> b]

\* cmpo.t(): L and R swapped, the two physical legs of P swapped
Transpose(o) ==
    [dim |-> o.dim, dL |-> o.dR, dR |-> o.dL, dPo |-> o.dPi, dPi |-> o.dPo]

\* act(mpo, mps): the five contractions in the order Python evaluates them
Act(o, s) ==
    LET N == o.dim * s.dim
        d == s.d
        m3 == EinsumDim(o.dR, s.d)
        m4 == EinsumDim(o.dL, d)
        n5 == EinsumDim(o.dPi, s.d)
        b3 == o.dR # s.d
        b4 == b3 \/ o.dL # d
        b5 == b4 \/ o.dPi # s.d
    IN  IF m3 = 0 THEN Raised(2, FALSE)
        ELSE IF m4 = 0 THEN Raised(3, b3)
        ELSE IF ~ViewOk(<<m4, N, N>>, <<d, N, N>>) THEN Raised(4, b4)
        ELSE IF n5 = 0 THEN Raised(4, b4)
        ELSE IF ~ViewOk(<<o.dPo, N, N>>, <<d, N, N>>) THEN Raised(5, b5)
        ELSE Returned(<<N, N>>, <<d, N, N>>, 5, b5)

\* Lact(mps, mpo): act on the transposed cmpo, then the two factors of the
\* bond space are swapped; the views keep the number of elements
Lact(s, o) ==
    LET T == Act(Transpose(o), s)
        N == o.dim * s.dim
    IN  IF T.status # "ok" THEN T
        ELSE Returned(<<N, N>>, <<s.d, N, N>>, T.contractions, T.broadcast)

\* density_matrix(mps1, mps2)
DensityMatrix(s1, s2) ==
    LET N == s1.dim * s2.dim
    IN  IF EinsumDim(s1.d, s2.d) = 0 THEN Raised(2, FALSE)
        ELSE Returned(<<N, N>>, <<>>, 3, s1.d # s2.d)

\* interpolate_cut(cut1, cut2, theta): the isometries U@V.t() can be.  mix is
\* always decomposed; at theta = 0, mix is cut2 and the product of its SVD
\* factors is cut2 up to rounding
InterpolateCut(cut1, cut2, th) ==
    IF th.zero THEN RoundingsOf(cut2) ELSE Iso

----------------------------------------------------------------------------
(* The line search of adaptive_mera_update *)

Pi == [zero |-> FALSE, den |-> 1]
Zero == [zero |-> TRUE, den |-> 0]

\* theta = theta / 2; if theta < np.pi / 1.9**12: theta = 0
\* (pi/den < pi/1.9**12 iff den > 2213.3...)
NextTheta(th) ==
    IF 2 * th.den > ThetaCut THEN Zero ELSE [zero |-> FALSE, den |-> 2 * th.den]

\* np.isclose(theta, 0): abs(theta) <= 1e-8
IsCloseZero(th) == th.zero \/ th.den > IsCloseDen

\* the trial isometry P_test for the new theta, and whether an SVD made it:
\* P.data itself at theta = 0, else interpolate_cut(U@V.t(), P.data, theta)
TrialAlwaysInterpolates(p, th) ==
    {[iso |-> q, svd |-> TRUE] : q \in UNION {InterpolateCut(g, p, th) : g \in Iso}}
TrialIsometries(p, th) ==
    IF th.zero THEN {[iso |-> p, svd |-> FALSE]}
    ELSE {[iso |-> q, svd |-> TRUE] :
            q \in UNION {InterpolateCut(g, p, th) : g \in Iso}}

\* if Fidel1_test > Fidel0 or np.isclose(theta, 0)
AcceptsNoDecrease(f1, f0, th) == ~Lt(f1, f0) \/ IsCloseZero(th)
Accepts(f1, f0, th) == Gt(f1, f0) \/ IsCloseZero(th)

\* diff = abs(loss.item() - last); if (diff < tol): break
ManifoldConvergedSignSlip(loss, l, t) ==
    loss.k = "num" /\ l.k = "num" /\ Abs(loss.v + l.v) < t
ManifoldConverged(loss, l, t) == AbsDiffLt(loss, l, t)

\* P = v[:, -chi:] has min(chi, D) columns, and all D of them for chi = 0
EnergyCutCols(D, c) == IF c = 0 \/ c > D THEN D ELSE c

----------------------------------------------------------------------------
(* States and parameters of variational_compr.  A cmps value is            *)
(* [none, dim, Q, R, Qgrad, Rgrad]: Q is the diagonal of its Q matrix, R    *)
(* names the value of its R tensor.                                        *)

QVals == {0, 1}
RVals == {0, 1}
LossVals == {0, 1, 2}

QVecs(n) == [1 .. n -> QVals]
SortedVecs(n) == {q \in QVecs(n) : \A i \in 1 .. n, j \in 1 .. n : i < j => q[i] <= q[j]}

None == [none |-> TRUE, dim |-> 0, Q |-> <<>>, R |-> 0, Qgrad |-> FALSE, Rgrad |-> FALSE]
State(n, q, r, g) ==
    [none |-> FALSE, dim |-> n, Q |-> q, R |-> r, Qgrad |-> g, Rgrad |-> g]

Unbound == [bound |-> FALSE, iso |-> 0, dim |-> 0]

\* mps.project(P): the cmps of dimension P's column count
Project(p, cols) == [bound |-> TRUE, iso |-> p, dim |-> cols]

\* if init is None
UseManifoldAlways(i) == TRUE
UseManifold(i) == i.none

MaxOf(q) == CHOOSE m \in {q[i] : i \in 1 .. Len(q)} : \A i \in 1 .. Len(q) : q[i] <= m
Shift(q) == [i \in 1 .. Len(q) |-> q[i] - MaxOf(q)]

\* data_cmps(Q, R): the module holds the two Parameter objects themselves
DataCmps(q, r) == [Q |-> q, R |-> r]

\* model.state_dict(): the current values of the held objects
StateDict(d, h) == [written |-> TRUE, Q |-> h[d.Q], R |-> h[d.R]]

\* Q -= torch.max(Q): in place, on the Parameter object
NormalizeRebinds(h) == [heap |-> h, Q |-> Shift(h.Q)]
NormalizeInPlace(h) == [heap |-> [h EXCEPT !.Q = Shift(h.Q)], Q |-> Shift(h.Q)]

\* cmps.detach()
Detach(s) == [s EXCEPT !.Qgrad = FALSE, !.Rgrad = FALSE]

Enter(tr, stage) == Append(tr, stage)

----------------------------------------------------------------------------
(* Initial states: one call, with its arguments *)

Phys == 1 .. MaxPhys
Dims == 1 .. MaxDim

Mpos == [dim : Dims, dL : Phys, dR : Phys, dPo : Phys, dPi : Phys]
Mpss == [dim : Dims, d : Phys]

NoArgs ==
    [mpo |-> [dim |-> 1, dL |-> 1, dR |-> 1, dPo |-> 1, dPi |-> 1],
     st |-> [dim |-> 1, d |-> 1], st2 |-> [dim |-> 1, d |-> 1],
     cut1 |-> 0, cut2 |-> 0, theta |-> Zero]
NoRes ==
    [status |-> "none", Q |-> <<>>, R |-> <<>>, contractions |-> 0,
     broadcast |-> FALSE, iso |-> 0, svds |-> 0]

Inits == {None} \cup {State(Len(q), q, 0, FALSE) : q \in UNION {QVecs(k) : k \in Dims}}

Locals ==
    /\ err = "none"
    /\ P = 0 /\ Pcols = 0 /\ last = Huge /\ step = 0 /\ mps_new = Unbound
    /\ Fidel0 = Huge /\ theta = Pi /\ P_test = 0 /\ usedSvd = FALSE
    /\ fellBack = FALSE /\ nomove = 0
    /\ psi = None /\ heap = [Q |-> <<>>, R |-> 0]
    /\ psi_data = DataCmps("", "") /\ loss0 = Huge
    /\ chkp = [written |-> FALSE, Q |-> <<>>, R |-> 0] /\ nWrites = 0
    /\ ret = None /\ trace = <<>> /\ refineStart = None
    /\ res = NoRes

InitPipeline ==
    /\ op \in {"variational_compr", "adaptive_mera_update"}
    /\ pc = IF op = "variational_compr" THEN "vc_start" ELSE "amu_start"
    /\ \E n \in Dims, b \in BOOLEAN : mps = [dim |-> n, nan |-> b]
    /\ lapackRaises \in (IF mps.nan THEN {"none", "symeig", "svd"} ELSE {"none"})
    /\ chi \in 1 .. mps.dim
    /\ tol \in 1 .. MaxTol
    /\ IF op = "variational_compr"
       THEN /\ maxiter = DefaultMaxIter
            /\ init \in Inits
       ELSE /\ maxiter \in 0 .. MaxIterArg
            /\ init = None
    /\ args = NoArgs

InitAlgebra ==
    /\ op \in {"act", "Lact", "density_matrix", "interpolate_cut"}
    /\ pc = "call"
    /\ mps = [dim |-> 1, nan |-> FALSE] /\ lapackRaises = "none"
    /\ chi = 1 /\ tol = 1 /\ maxiter = 0 /\ init = None
    /\ \/ /\ op \in {"act", "Lact"}
          /\ \E o \in Mpos, s \in Mpss : args = [NoArgs EXCEPT !.mpo = o, !.st = s]
       \/ /\ op = "density_matrix"
          /\ \E s1 \in Mpss, s2 \in Mpss : args = [NoArgs EXCEPT !.st = s1, !.st2 = s2]
       \/ /\ op = "interpolate_cut"
          /\ \E a \in Iso, b \in Iso, th \in {Zero, NextTheta(Pi), NextTheta(NextTheta(Pi))} :
                args = [NoArgs EXCEPT !.cut1 = a, !.cut2 = b, !.theta = th]

Init == Locals /\ (InitPipeline \/ InitAlgebra)

----------------------------------------------------------------------------
(* adaptive_mera_update *)

pipelineVars == <<psi, heap, psi_data, loss0, chkp, nWrites, refineStart>>
inputVars == <<op, mps, chi, tol, maxiter, init, lapackRaises, args>>
searchVars == <<P, Pcols, last, step, mps_new, Fidel0, fellBack, nomove>>
trialVars == <<theta, P_test, usedSvd>>

\* P = energy_cut(mps, chi); last = 9.9e9; step = 0
EnergyCut ==
    /\ pc = "amu_start"
    /\ IF mps.nan /\ lapackRaises = "symeig"
       THEN /\ err' = "LinAlgError" /\ pc' = "raised"
            /\ UNCHANGED <<P, Pcols, last, step, trace>>
       ELSE /\ P' \in Iso
            /\ Pcols' = EnergyCutCols(mps.dim, chi)
            /\ last' = Huge /\ step' = 0
            /\ trace' = Enter(trace, "INIT")
            /\ pc' = "amu_loop" /\ err' = err
    /\ UNCHANGED <<mps_new, Fidel0, fellBack, nomove, ret, res>>
    /\ UNCHANGED <<inputVars, trialVars, pipelineVars>>

\* while step < maxiter: false
AmuExhausted ==
    /\ pc = "amu_loop"
    /\ ~(step < maxiter)
    /\ pc' = "amu_ret"
    /\ UNCHANGED <<err, ret, res, trace>>
    /\ UNCHANGED <<inputVars, searchVars, trialVars, pipelineVars>>

\* the loop body up to "if (diff < tol): break", taken
AmuConverged ==
    /\ pc = "amu_loop"
    /\ step < maxiter
    /\ ManifoldConverged(FidelityOf(mps, P), last, tol)
    /\ mps_new' = Project(P, Pcols)
    /\ pc' = "amu_ret"
    /\ trace' = IF step = 0 THEN Enter(trace, "MANIFOLD_SEARCH") ELSE trace
    /\ UNCHANGED <<P, Pcols, last, step, Fidel0, fellBack, nomove>>
    /\ UNCHANGED <<err, ret, res>>
    /\ UNCHANGED <<inputVars, trialVars, pipelineVars>>

\* the loop body up to "proceed = False", the break not taken; torch.svd
\* meets the NaN gradient of a NaN mps
AmuStep ==
    /\ pc = "amu_loop"
    /\ step < maxiter
    /\ ~ManifoldConverged(FidelityOf(mps, P), last, tol)
    /\ mps_new' = Project(P, Pcols)
    /\ last' = FidelityOf(mps, P)
    /\ Fidel0' = FidelityOf(mps, P)
    /\ step' = step + 1
    /\ theta' = Pi
    /\ IF mps.nan /\ lapackRaises = "svd"
       THEN err' = "LinAlgError" /\ pc' = "raised"
       ELSE err' = err /\ pc' = "ls_halve"
    /\ trace' = IF step = 0 THEN Enter(trace, "MANIFOLD_SEARCH") ELSE trace
    /\ UNCHANGED <<P, Pcols, fellBack, nomove, P_test, usedSvd>>
    /\ UNCHANGED <<ret, res>>
    /\ UNCHANGED <<inputVars, pipelineVars>>

\* theta = theta / 2 and the choice of P_test
LineSearchTrial ==
    /\ pc = "ls_halve"
    /\ theta' = NextTheta(theta)
    /\ \E t \in TrialIsometries(P, theta') :
          /\ P_test' = t.iso
          /\ usedSvd' = t.svd
    /\ pc' = "ls_eval"
    /\ UNCHANGED <<err, ret, res, trace>>
    /\ UNCHANGED <<inputVars, searchVars, pipelineVars>>

\* Fidel1_test = Fidelity(mps_test, mps, beta) and the acceptance test
LineSearchAccept ==
    /\ pc = "ls_eval"
    /\ IF Accepts(FidelityOf(mps, P_test), Fidel0, theta)
       THEN /\ P' = P_test
            /\ fellBack' = theta.zero
            /\ nomove' = IF theta.zero THEN nomove + 1 ELSE nomove
            /\ pc' = "amu_loop"
       ELSE /\ pc' = "ls_halve"
            /\ UNCHANGED <<P, fellBack, nomove>>
    /\ UNCHANGED <<Pcols, last, step, mps_new, Fidel0>>
    /\ UNCHANGED <<err, ret, res, trace>>
    /\ UNCHANGED <<inputVars, trialVars, pipelineVars>>

\* return mps_new: to the caller of adaptive_mera_update, or into
\* variational_compr, where the frame of adaptive_mera_update is gone
AmuReturn ==
    /\ pc = "amu_ret"
    /\ IF ~mps_new.bound
       THEN /\ err' = "UnboundLocalError" /\ pc' = "raised"
            /\ UNCHANGED <<ret, psi, searchVars, trialVars>>
       ELSE /\ err' = err
            /\ IF op = "adaptive_mera_update"
               THEN /\ ret' = mps_new /\ pc' = "done" /\ psi' = psi
                    /\ UNCHANGED <<searchVars, trialVars>>
               ELSE /\ \E q \in QVecs(mps_new.dim) :
                          psi' = State(mps_new.dim, q, 0, TRUE)
                    /\ pc' = "vc_gauge" /\ ret' = ret
                    /\ P' = 0 /\ Pcols' = 0 /\ last' = Huge /\ step' = 0
                    /\ mps_new' = Unbound /\ Fidel0' = Huge /\ theta' = Pi
                    /\ P_test' = 0 /\ usedSvd' = FALSE
                    /\ fellBack' = FALSE /\ nomove' = 0
    /\ UNCHANGED <<res, trace, heap, psi_data, loss0, chkp, nWrites, refineStart>>
    /\ UNCHANGED inputVars

----------------------------------------------------------------------------
(* variational_compr *)

\* if init is None: psi = adaptive_mera_update(...) else: psi = init
VcBegin ==
    /\ pc = "vc_start"
    /\ IF UseManifold(init)
       THEN pc' = "amu_start" /\ psi' = psi
       ELSE pc' = "vc_params" /\ psi' = init
    /\ UNCHANGED <<err, ret, res, trace, heap, psi_data, loss0, chkp, nWrites, refineStart>>
    /\ UNCHANGED <<inputVars, searchVars, trialVars>>

\* psi = psi.diagQ(): Q becomes diag(w), w ascending
VcGauge ==
    /\ pc = "vc_gauge"
    /\ \E q \in SortedVecs(psi.dim) : psi' = [psi EXCEPT !.Q = q]
    /\ trace' = Enter(trace, "GAUGE_FIX")
    /\ pc' = "vc_params"
    /\ UNCHANGED <<err, ret, res, heap, psi_data, loss0, chkp, nWrites, refineStart>>
    /\ UNCHANGED <<inputVars, searchVars, trialVars>>

\* Q, R = Parameter(...); psi_data = data_cmps(Q, R); loss0 = 9.99e99
VcParams ==
    /\ pc = "vc_params"
    /\ heap' = [Q |-> psi.Q, R |-> psi.R]
    /\ psi_data' = DataCmps("Q", "R")
    /\ loss0' = Huge
    /\ refineStart' = psi
    /\ trace' = Enter(trace, "REFINEMENT")
    /\ pc' = "vc_refine"
    /\ UNCHANGED <<err, ret, res, psi, chkp, nWrites>>
    /\ UNCHANGED <<inputVars, searchVars, trialVars>>

\* one pass of "while not is_converged": optimizer.step moves Q and R in
\* place and returns a loss; the eigensolver of the closure meets the NaN of
\* a NaN mps
VcRefine ==
    /\ pc = "vc_refine"
    /\ IF mps.nan /\ lapackRaises = "symeig"
       THEN /\ err' = "LinAlgError" /\ pc' = "raised"
            /\ UNCHANGED <<heap, loss0>>
       ELSE /\ err' = err
            /\ \E l \in (IF mps.nan THEN {NaN} ELSE {Num(v) : v \in LossVals}) :
                  /\ loss0' = l
                  /\ pc' = IF IsClose(l, loss0, tol) THEN "vc_norm" ELSE "vc_refine"
            /\ \E q \in QVecs(Len(heap.Q)), r \in RVals : heap' = [Q |-> q, R |-> r]
    /\ UNCHANGED <<ret, res, trace, psi, psi_data, chkp, nWrites, refineStart>>
    /\ UNCHANGED <<inputVars, searchVars, trialVars>>

\* with torch.no_grad(): Q -= torch.max(Q); psi = cmps(torch.diag(Q), R)
VcNormalize ==
    /\ pc = "vc_norm"
    /\ heap' = NormalizeInPlace(heap).heap
    /\ psi' = [none |-> FALSE, dim |-> Len(heap.Q), Q |-> NormalizeInPlace(heap).Q,
               R |-> heap.R, Qgrad |-> FALSE, Rgrad |-> TRUE]
    /\ trace' = Enter(trace, "NORMALIZE")
    /\ pc' = "vc_save"
    /\ UNCHANGED <<err, ret, res, psi_data, loss0, chkp, nWrites, refineStart>>
    /\ UNCHANGED <<inputVars, searchVars, trialVars>>

\* datasave(psi_data, chkp_loc)
VcSave ==
    /\ pc = "vc_save"
    /\ chkp' = StateDict(psi_data, heap)
    /\ nWrites' = nWrites + 1
    /\ trace' = Enter(trace, "CHECKPOINTED")
    /\ pc' = "vc_ret"
    /\ UNCHANGED <<err, ret, res, psi, heap, psi_data, loss0, refineStart>>
    /\ UNCHANGED <<inputVars, searchVars, trialVars>>

\* return psi.detach()
VcReturn ==
    /\ pc = "vc_ret"
    /\ ret' = Detach(psi)
    /\ pc' = "done"
    /\ UNCHANGED <<err, res, trace, pipelineVars>>
    /\ UNCHANGED <<inputVars, searchVars, trialVars>>

----------------------------------------------------------------------------
(* The algebra and interpolate_cut, called on their own *)

CallAct ==
    /\ pc = "call" /\ op = "act"
    /\ res' = [NoRes EXCEPT !.status = Act(args.mpo, args.st).status,
                            !.Q = Act(args.mpo, args.st).Q,
                            !.R = Act(args.mpo, args.st).R,
                            !.contractions = Act(args.mpo, args.st).contractions,
                            !.broadcast = Act(args.mpo, args.st).broadcast]
    /\ pc' = "done"
    /\ UNCHANGED <<err, ret, trace>>
    /\ UNCHANGED <<inputVars, searchVars, trialVars, pipelineVars>>

CallLact ==
    /\ pc = "call" /\ op = "Lact"
    /\ res' = [NoRes EXCEPT !.status = Lact(args.st, args.mpo).status,
                            !.Q = Lact(args.st, args.mpo).Q,
                            !.R = Lact(args.st, args.mpo).R,
                            !.contractions = Lact(args.st, args.mpo).contractions,
                            !.broadcast = Lact(args.st, args.mpo).broadcast]
    /\ pc' = "done"
    /\ UNCHANGED <<err, ret, trace>>
    /\ UNCHANGED <<inputVars, searchVars, trialVars, pipelineVars>>

CallDensityMatrix ==
    /\ pc = "call" /\ op = "density_matrix"
    /\ res' = [NoRes EXCEPT !.status = DensityMatrix(args.st, args.st2).status,
                            !.Q = DensityMatrix(args.st, args.st2).Q,
                            !.contractions = DensityMatrix(args.st, args.st2).contractions,
                            !.broadcast = DensityMatrix(args.st, args.st2).broadcast]
    /\ pc' = "done"
    /\ UNCHANGED <<err, ret, trace>>
    /\ UNCHANGED <<inputVars, searchVars, trialVars, pipelineVars>>

\* mix = ...; U, _, V = torch.svd(mix); return U@V.t()
CallInterpolateCut ==
    /\ pc = "call" /\ op = "interpolate_cut"
    /\ \E q \in InterpolateCut(args.cut1, args.cut2, args.theta) :
          res' = [NoRes EXCEPT !.status = "ok", !.iso = q, !.svds = 1]
    /\ pc' = "done"
    /\ UNCHANGED <<err, ret, trace>>
    /\ UNCHANGED <<inputVars, searchVars, trialVars, pipelineVars>>

----------------------------------------------------------------------------

Next ==
    \/ EnergyCut \/ AmuExhausted \/ AmuConverged \/ AmuStep
    \/ LineSearchTrial \/ LineSearchAccept \/ AmuReturn
    \/ VcBegin \/ VcGauge \/ VcParams \/ VcRefine \/ VcNormalize \/ VcSave \/ VcReturn
    \/ CallAct \/ CallLact \/ CallDensityMatrix \/ CallInterpolateCut

Spec == Init /\ [][Next]_vars

\* the interpreter always takes the next step of a call that has not ended
FairSpec == Spec /\ WF_vars(Next)

----------------------------------------------------------------------------
(* Properties *)

Stages == <<"INIT", "MANIFOLD_SEARCH", "GAUGE_FIX", "REFINEMENT", "NORMALIZE", "CHECKPOINTED">>
StageRank(st) == CHOOSE i \in 1 .. Len(Stages) : Stages[i] = st
ManifoldPcs == {"amu_start", "amu_loop", "ls_halve", "ls_eval", "amu_ret", "vc_gauge"}

\* C1: a run of variational_compr enters the stages in the order INIT,
\* MANIFOLD_SEARCH, GAUGE_FIX, REFINEMENT, NORMALIZE, CHECKPOINTED, each at
\* most once and all six when it returns with init None; with an init given it
\* never runs energy_cut, the isometry search or diagQ, and the refinement
\* starts from init.
C1_StageOrder ==
    op = "variational_compr" =>
        /\ \A i \in 1 .. Len(trace), j \in 1 .. Len(trace) :
              i < j => StageRank(trace[i]) < StageRank(trace[j])
        /\ pc = "done" =>
              trace = IF init.none THEN Stages ELSE SubSeq(Stages, 4, 6)
        /\ ~init.none =>
              /\ pc \notin ManifoldPcs
              /\ \A i \in 1 .. Len(trace) : StageRank(trace[i]) >= 4
              /\ ~refineStart.none => refineStart = init
              /\ ~mps_new.bound

C1_Witness ==
    /\ op = "variational_compr" /\ pc = "done" /\ ~init.none
    /\ trace = SubSeq(Stages, 4, 6) /\ refineStart = init

\* C2: every call of adaptive_mera_update and of variational_compr ends (it
\* returns or raises), whatever the losses are.
C2_BothLoopsTerminate ==
    op \in {"variational_compr", "adaptive_mera_update"} => <>(pc \in {"done", "raised"})

\* C3: when variational_compr returns, the returned cmps has bond dimension
\* chi and no gradient tracking, and chkp_loc was written exactly once.
C3_ReturnedState ==
    (op = "variational_compr" /\ pc = "done") =>
        /\ ret.dim = chi
        /\ ~ret.Qgrad /\ ~ret.Rgrad
        /\ nWrites = 1 /\ chkp.written

LegsDisagree ==
    IF op = "density_matrix" THEN args.st.d # args.st2.d
    ELSE \E x \in {args.mpo.dL, args.mpo.dR, args.mpo.dPo, args.mpo.dPi} : x # args.st.d

\* C4: when the physical legs of the operands of act, Lact or density_matrix
\* disagree, the call ends in an error: it returns no result (the claim adds
\* that the error comes before any contraction; what is stated here is the
\* part of it that does not depend on where the error is raised).
C4_MismatchFailsFast ==
    (op \in {"act", "Lact", "density_matrix"} /\ pc = "done" /\ LegsDisagree) =>
        res.status # "ok"

WellFormed(o) == o.dL = o.dR /\ o.dL = o.dPo /\ o.dL = o.dPi

\* C5: when act returns, Q is (Do*Ds) x (Do*Ds) and R is d x (Do*Ds) x (Do*Ds)
\* with d the size of the output axis of mpo.P, which for a cmpo whose
\* tensors share one physical leg is the first axis of mpo.L.
C5_ActShape ==
    (op = "act" /\ pc = "done" /\ res.status = "ok") =>
        LET N == args.mpo.dim * args.st.dim
        IN  /\ res.Q = <<N, N>>
            /\ res.R = <<args.mpo.dPo, N, N>>
            /\ WellFormed(args.mpo) => res.R[1] = args.mpo.dL

C5_Witness ==
    /\ op = "act" /\ pc = "done" /\ res.status = "ok" /\ WellFormed(args.mpo)
    /\ args.mpo.dim = 2 /\ args.st.dim = 2 /\ args.mpo.dL = 2
    /\ res.R = <<2, 4, 4>>

\* C6 as claimed: interpolate_cut called with theta = 0 performs no SVD and
\* returns cut2 itself.
C6_InterpolateSkipsSvd ==
    (op = "interpolate_cut" /\ pc = "done" /\ args.theta.zero) =>
        res.svds = 0 /\ res.iso = args.cut2

\* C6 amended: at theta = 0 the line search of adaptive_mera_update takes
\* P.data itself as the trial isometry, without interpolate_cut and its SVD;
\* interpolate_cut always performs its SVD, and at theta = 0 returns cut2 up
\* to rounding.
C6_LineSearchSkipsSvd ==
    /\ (pc = "ls_eval" /\ theta.zero) => (P_test = P /\ ~usedSvd)
    /\ (pc = "ls_eval" /\ ~theta.zero) => usedSvd
    /\ (op = "interpolate_cut" /\ pc = "done") =>
          /\ res.svds = 1
          /\ args.theta.zero => res.iso \in RoundingsOf(args.cut2)

C6_Witness == pc = "ls_eval" /\ theta.zero /\ P_test = P /\ ~usedSvd

\* C7: adaptive_mera_update returns for every maxiter >= 0, and what it
\* returns is the projection by the value P has when the loop exits.
C7_ReturnsLastIterate ==
    op = "adaptive_mera_update" =>
        /\ err # "UnboundLocalError"
        /\ pc = "done" => ret = Project(P, Pcols)

Ge(a, b) == a.k = "num" /\ b.k = "num" /\ a.v >= b.v

\* C8 as claimed: a trial whose fidelity is not below the fidelity at the
\* current P (equal to it included) is accepted.
C8_AcceptsNoDecrease ==
    [][(pc = "ls_eval" /\ Ge(FidelityOf(mps, P_test), FidelityOf(mps, P)))
          => (pc' = "amu_loop" /\ P' = P_test)]_vars

\* C8 amended: the line search starts from theta = pi and halves theta before
\* each trial; a trial is accepted exactly when its fidelity is strictly
\* above the fidelity at the current P, or when theta has reached 0 (then the
\* trial is P itself); theta is never halved below pi/1.9**12 without
\* becoming 0, and the fidelity of the accepted isometry is never below the
\* one it replaces.
C8_LineSearch ==
    /\ [](pc \in {"ls_halve", "ls_eval"} =>
            /\ Fidel0 = FidelityOf(mps, P)
            /\ theta.zero \/ theta.den <= ThetaCut
            /\ (pc = "ls_eval" /\ theta.zero) => P_test = P)
    /\ [][(pc = "amu_loop" /\ pc' = "ls_halve") => theta' = Pi]_vars
    /\ [][pc = "ls_halve" =>
            (theta' = Zero \/ (theta'.den = 2 * theta.den /\ ~theta'.zero))]_vars
    /\ [][pc = "ls_eval" =>
            /\ (pc' = "amu_loop") <=>
                  (Gt(FidelityOf(mps, P_test), FidelityOf(mps, P)) \/ theta.zero)
            /\ pc' = "amu_loop" =>
                  (P' = P_test /\ ~Lt(FidelityOf(mps, P'), FidelityOf(mps, P)))
            /\ pc' # "amu_loop" => (pc' = "ls_halve" /\ P' = P)]_vars

\* a trial of equal fidelity was rejected, and theta is halved again
C8_Witness ==
    /\ pc = "ls_halve" /\ ~theta.zero /\ theta.den >= 2 /\ P_test # P
    /\ FidelityOf(mps, P_test) = FidelityOf(mps, P) /\ ~mps.nan

\* C9: the Q and R of the checkpoint are the normalized parameters: the
\* largest entry of the checkpointed Q is 0, and they are the Q diagonal and
\* the R of the returned cmps.
C9_CheckpointNormalized ==
    (op = "variational_compr" /\ chkp.written) =>
        /\ MaxOf(chkp.Q) = 0
        /\ chkp.Q = psi.Q /\ chkp.R = psi.R
        /\ pc = "done" => (chkp.Q = ret.Q /\ chkp.R = ret.R /\ ret.dim = Len(chkp.Q))

C9_Witness ==
    /\ op = "variational_compr" /\ pc = "done" /\ chkp.written
    /\ \E i \in 1 .. Len(chkp.Q) : chkp.Q[i] < 0
    /\ chkp.Q = ret.Q

\* C10 as claimed: after a step that ended with the theta = 0 trial, with
\* fewer than maxiter steps taken, the next pass of the loop breaks and
\* mps_new is the projection by the unchanged P; no run has two such steps.
C10_NoMoveStops ==
    /\ [][(pc = "amu_loop" /\ fellBack /\ step < maxiter) =>
            (pc' = "amu_ret" /\ mps_new' = Project(P, Pcols) /\ P' = P)]_vars
    /\ [](nomove <= 1)

\* C10 amended: the same, for a loss that is a number; when the loss is NaN
\* the test diff < tol never succeeds and every step up to maxiter ends with
\* the theta = 0 trial.
C10_NoMoveStopsUnlessNaN ==
    /\ [][(pc = "amu_loop" /\ fellBack /\ step < maxiter
             /\ FidelityOf(mps, P).k = "num") =>
            (pc' = "amu_ret" /\ mps_new' = Project(P, Pcols) /\ P' = P
               /\ step' = step)]_vars
    /\ [](FidelityOf(mps, P).k = "num" => nomove <= 1)
    /\ []((pc = "done" /\ op = "adaptive_mera_update" /\ fellBack
             /\ FidelityOf(mps, P).k = "num") => ret = Project(P, Pcols))
    /\ [][(pc = "amu_loop" /\ fellBack /\ step < maxiter
             /\ FidelityOf(mps, P).k = "nan") =>
            (pc' = "ls_halve" /\ step' = step + 1)]_vars

C10_Witness ==
    /\ op = "adaptive_mera_update" /\ pc = "done" /\ fellBack /\ step < maxiter
    /\ ~mps.nan /\ nomove = 1 /\ ret = Project(P, Pcols)

====
